---- MODULE Spec2Model ----
(***************************************************************************)
(* Model of the E-Ink HTML rendering service (src/main.py) and of its      *)
(* one-shot command line twin (src/scripts/render_template.py).            *)
(*                                                                         *)
(* One invocation of the render pipeline is a process p.  Its program      *)
(* counter pc[p] walks through the code of render_generic /                *)
(* render_html_to_image / render_template / create_html_file /             *)
(* take_screenshot / image_to_response.  The environment (file system,     *)
(* browser process, system clock) is nondeterministic.                     *)
(*                                                                         *)
(* Python values are records, so that any two of them can be compared:     *)
(*   None                      [type |-> "None"]                           *)
(*   JSON null / number / str  [type |-> "null"], [type |-> "number", ..]  *)
(*   JSON object (dict)        [type |-> "object", members |-> f]          *)
(*   a dict used as data       the function f itself (DOMAIN f = its keys) *)
(* File names are sequences of tokens: "weather.html" is                   *)
(* <<"weather", ".html">>, so that str.endswith and str.replace work on    *)
(* the name and are not the identity.                                      *)
(***************************************************************************)
EXTENDS Integers, Sequences, FiniteSets, TLC

\* ------------------------------------------------------------------ bounds

\* How many times the system clock may advance during the run.
MaxTicks == 2

\* The pipeline invocations of the model.
Procs == {1, 2}

\* ------------------------------------------------------------ Python values

None == [type |-> "None"]

JNull == [type |-> "null"]

JNum(n) == [type |-> "number", num |-> n]

JStr(s) == [type |-> "string", str |-> s]

JArr(s) == [type |-> "array", items |-> s]

JObj(m) == [type |-> "object", members |-> m]

\* The empty dict {}.
EmptyDict == [k \in {} |-> JNull]

\* DISPLAY_CONFIG (the colour palette plays no part in the pipeline).
DISPLAY_CONFIG == [width |-> 800, height |-> 480]

\* The keys render_template sets itself.
BuiltinKeys == {"display", "current_time", "current_date", "day_of_week"}

\* ------------------------------------------------------------ the clock

\* datetime.now() at the start of the run: one minute before midnight of day 0.
StartInstant == [day |-> 0, minute |-> 23 * 60 + 59]

MinutesPerDay == 24 * 60

Weekdays == <<"Monday", "Tuesday", "Wednesday", "Thursday", "Friday", "Saturday", "Sunday">>

\* datetime.now() after the clock advanced by t minutes.
Now(t) ==
    LET m == StartInstant.minute + t
    IN  [day |-> StartInstant.day + (m \div MinutesPerDay), minute |-> m % MinutesPerDay]

\* strftime('%H:%M')
FormatTime(i) == [hour |-> i.minute \div 60, minute |-> i.minute % 60]

\* strftime('%Y-%m-%d'): the calendar day.
FormatDate(i) == [date |-> i.day]

\* strftime('%A')
FormatWeekday(i) == [weekday |-> Weekdays[(i.day % 7) + 1]]

\* ------------------------------------------------------------ the template store

HTML == ".html"

JSON == ".json"

\* template_name + ".html", template_name + ".json"
HtmlFile(name) == name \o <<HTML>>

JsonFile(name) == name \o <<JSON>>

\* The files of TEMPLATES_DIR in a populated store.
FullStore ==
    { <<"weather", HTML>>, <<"weather", JSON>>,
      <<"todo", HTML>>,
      <<"blank", HTML>>, <<"blank", JSON>>,
      <<"broken", HTML>>, <<"broken", JSON>>,
      <<"clock", HTML>>, <<"clock", JSON>>,
      <<"news", HTML>>, <<"news", JSON>>,
      <<"schedule", HTML>>, <<"schedule", JSON>>,
      <<"page", HTML, HTML>>,
      <<"orphan", JSON>>,
      <<"base", ".css">> }

\* A store as in the documentation's example: weather with a sidecar, todo without.
SmallStore == { <<"weather", HTML>>, <<"weather", JSON>>, <<"todo", HTML>> }

Stores == {FullStore, SmallStore, {}}

\* The text of a sidecar file: unparsable text, or a JSON document and its value.
Unparsable == [text |-> "garbage"]

Document(v) == [text |-> "json", value |-> v]

WeatherDefaults == [a |-> JNum(1), b |-> JNum(2), display |-> JStr("default")]

SidecarText(file) ==
    CASE file = <<"weather", JSON>> -> Document(JObj([defaults |-> JObj(WeatherDefaults)]))
      [] file = <<"blank", JSON>> -> Unparsable
      [] file = <<"broken", JSON>> -> Document(JObj([title |-> JStr("t")]))
      [] file = <<"clock", JSON>> -> Document(JNum(5))
      [] file = <<"news", JSON>> -> Document(JObj([defaults |-> JNum(5)]))
      [] file = <<"schedule", JSON>> -> Document(JArr(<<JStr("x")>>))
      [] file = <<"orphan", JSON>> -> Document(JNull)
      [] OTHER -> Unparsable

\* What template.render does with a markup file: "ok" expands to non-empty
\* markup, "empty" expands to the empty string, "error" raises.
TemplateBehaviour(file) ==
    CASE file = <<"blank", HTML>> -> "empty"
      [] file = <<"broken", HTML>> -> "error"
      [] OTHER -> "ok"

\* The template names a caller may ask for; ghost has no file at all and orphan
\* only a sidecar.
RequestNames ==
    { <<"weather">>, <<"todo">>, <<"blank">>, <<"broken">>, <<"clock">>, <<"news">>,
      <<"schedule">>, <<"ghost">>, <<"orphan">> }

\* The data a caller may send.
CallerData ==
    { EmptyDict,
      [b |-> JNum(3)],
      [b |-> JNull],
      [b |-> JNum(3), display |-> JStr("mine"), current_time |-> JStr("mine"),
       current_date |-> JStr("mine"), day_of_week |-> JStr("mine")] }

\* ------------------------------------------------------------ pure helpers

\* str.endswith(suffix) on a token sequence.
EndsWith(file, suffix) == Len(file) > 0 /\ file[Len(file)] = suffix

\* str.replace(old, ''): every occurrence of the token is removed.
RECURSIVE Replace(_, _)
Replace(file, old) ==
    IF file = <<>> THEN <<>>
    ELSE IF Head(file) = old THEN Replace(Tail(file), old)
         ELSE <<Head(file)>> \o Replace(Tail(file), old)

\* json.load: the document's value; unparsable text raises.
JsonLoadRaises(text) == text.text # "json"

JsonLoad(text) == text.value

\* load_template_config: the sidecar's value, {} when it is missing or unparsable.
load_template_config(files, name) ==
    IF JsonFile(name) \in files
    THEN IF JsonLoadRaises(SidecarText(JsonFile(name)))
         THEN JObj(EmptyDict)
         ELSE JsonLoad(SidecarText(JsonFile(name)))
    ELSE JObj(EmptyDict)

\* Python's `key in x` raises TypeError for a number or None.
InRaises(x) == x.type \in {"number", "null"}

\* Python's `key in x` for a dict (its keys) and a list (its elements).
InHolds(x, key) ==
    CASE x.type = "object" -> key \in DOMAIN x.members
      [] x.type = "array" -> \E i \in 1..Len(x.items) : x.items[i] = JStr(key)
      [] OTHER -> FALSE

\* template_config['defaults'].items() raises unless both are dicts.
ItemsRaises(cfg) ==
    \/ cfg.type # "object"
    \/ cfg.members["defaults"].type # "object"

\* The defaults block of render_generic raises.
DefaultsRaise(cfg) ==
    \/ InRaises(cfg)
    \/ InHolds(cfg, "defaults") /\ ItemsRaises(cfg)

\* A defaults block that lets the defaults overwrite what the caller sent.
ApplyDefaults_Overwrite(d, defaults) ==
    [k \in DOMAIN d \cup DOMAIN defaults |-> IF k \in DOMAIN defaults THEN defaults[k] ELSE d[k]]

\* for key, value in defaults.items(): if key not in data: data[key] = value
ApplyDefaults(d, defaults) ==
    [k \in DOMAIN d \cup DOMAIN defaults |-> IF k \in DOMAIN d THEN d[k] ELSE defaults[k]]

\* data after the defaults block (which must not raise).
MergedData(cfg, d) ==
    IF InHolds(cfg, "defaults") THEN ApplyDefaults(d, cfg.members["defaults"].members) ELSE d

\* A template_data with **data written last: {'display': ..., ..., **data}.
TemplateData_DataLast(d, t, dt, w) ==
    [k \in DOMAIN d \cup BuiltinKeys |->
        IF k \in DOMAIN d THEN d[k]
        ELSE CASE k = "display" -> DISPLAY_CONFIG
               [] k = "current_time" -> t
               [] k = "current_date" -> dt
               [] OTHER -> w]

\* template_data = {**data, 'display': ..., 'current_time': ..., ...}: later keys win.
TemplateData(d, t, dt, w) ==
    [k \in DOMAIN d \cup BuiltinKeys |->
        CASE k = "display" -> DISPLAY_CONFIG
          [] k = "current_time" -> t
          [] k = "current_date" -> dt
          [] k = "day_of_week" -> w
          [] OTHER -> d[k]]

\* A loader that finds a template for every name.
TemplateMissing_Never(files, name) == FALSE

\* jinja_env.get_template raises TemplateNotFound.
TemplateMissing(files, name) == HtmlFile(name) \notin files

EmptyStr == [type |-> "str", empty |-> TRUE]

Markup(name, vars) == [type |-> "str", empty |-> FALSE, template |-> name, vars |-> vars]

\* template.render(**template_data); render_template turns an exception into None.
Expand(name, vars) ==
    CASE TemplateBehaviour(HtmlFile(name)) = "ok" -> Markup(name, vars)
      [] TemplateBehaviour(HtmlFile(name)) = "empty" -> EmptyStr
      [] OTHER -> None

\* Python's `not x` for None, a str, a path or an image.
Not(x) == x = None \/ x = EmptyStr

\* ------------------------------------------------------------ temporary files

\* A temporary name that is the same for every file of a kind.
TmpPath_Fixed(n, suffix) == [type |-> "path", n |-> 0, suffix |-> suffix]

\* tempfile.NamedTemporaryFile: a name no other temporary file has (mkstemp opens
\* with O_EXCL); n is the number of names handed out before.
TmpPath(n, suffix) == [type |-> "path", n |-> n, suffix |-> suffix]

EmptyFile == [type |-> "bytes", empty |-> TRUE]

Png(w, h) == [type |-> "png", width |-> w, height |-> h]

\* os.path.exists
Exists(d, path) == \E f \in d : f.path = path

\* os.remove
Remove(d, path) == {f \in d : f.path # path}

\* if path and os.path.exists(path): os.remove(path)
RemoveIfExists(d, path) == IF path # None /\ Exists(d, path) THEN Remove(d, path) ELSE d

\* open(path, 'w') / the browser writing its screenshot: the content is replaced.
WriteFile(d, path, content) == Remove(d, path) \cup {[path |-> path, content |-> content]}

\* The content of a file that exists.
Content(d, path) == (CHOOSE f \in d : f.path = path).content

\* Image.open(...).copy(): the decoded bitmap; raises on anything but a PNG.
DecodeRaises(content) == content.type # "png"

Decode(content) == [type |-> "image", width |-> content.width, height |-> content.height]

\* ------------------------------------------------------------ results

\* image_to_response(None, ...)
NoImageResponse == [kind |-> "response", status |-> 500, error |-> "Failed to generate image"]

\* render_generic's except branch: jsonify({'error': str(e)}), 500
ExceptionResponse == [kind |-> "response", status |-> 500, error |-> "exception"]

\* send_file(tmp_file.name, mimetype='image/png', ...)
ImageResponse(path) == [kind |-> "response", status |-> 200, file |-> path]

\* The command line script's render_html_to_image returns True or False.
Bool(b) == [kind |-> "bool", value |-> b]

\* setup_jinja_env: sys.exit(1)
SystemExit == [kind |-> "SystemExit", code |-> 1]

\* The stages of one invocation, in order.
StageOrder == <<"Start", "ConfigLoaded", "MarkupRendered", "TempFileWritten", "Rasterized", "Done">>

\* ------------------------------------------------------------ state

VARIABLES
    store,            \* the files of TEMPLATES_DIR
    dirExists,        \* os.path.exists(TEMPLATES_DIR)
    clock,            \* minutes the system clock advanced since the start
    listing,          \* what GET /templates answered, None before
    active,           \* the invocations that run
    pc,               \* where each invocation stands in the code
    surface,          \* "service" (main.py) or "cli" (render_template.py)
    template_name,    \* the template asked for
    request,          \* the data the caller sent
    data,             \* the local `data`, defaults applied in place
    current_time,     \* template_data['current_time']
    current_date,     \* template_data['current_date']
    day_of_week,      \* template_data['day_of_week']
    template_data,    \* what template.render was given
    html_content,     \* render_template's result
    html_file_path,   \* render_html_to_image's local
    img_file_path,    \* take_screenshot's local
    image,            \* render_html_to_image's result
    result,           \* what the caller got
    browser,          \* the chromium-headless-shell process of the invocation
    disk,             \* the files of the temporary directory
    outputs,          \* the output PNGs the command line script saved
    nextTmp,          \* the temporary names handed out so far
    created,          \* the temporary files each invocation created
    removed,          \* the temporary files each invocation removed
    browserCalls,     \* how often each invocation called subprocess.run
    trace             \* the stages each invocation went through

envVars == <<store, dirExists>>

reqVars == <<surface, template_name, request>>

clockVars == <<current_time, current_date, day_of_week>>

vars ==
    <<store, dirExists, clock, listing, active, pc, surface, template_name, request, data,
      current_time, current_date, day_of_week, template_data, html_content,
      html_file_path, img_file_path, image, result, browser, disk, outputs, nextTmp,
      created, removed, browserCalls, trace>>

Surfaces == {"service", "cli"}

NoBrowser == [state |-> "none"]

\* dimensions = (DISPLAY_CONFIG['width'], DISPLAY_CONFIG['height'])
Dimensions == <<DISPLAY_CONFIG.width, DISPLAY_CONFIG.height>>

\* What the browser process may do before it exits: its exit code, and whether it
\* wrote the screenshot, left the pre-created file alone or deleted it.
BrowserOutcomes ==
    { [code |-> 0, effect |-> "png"],
      [code |-> 0, effect |-> "none"],
      [code |-> 0, effect |-> "delete"],
      [code |-> 1, effect |-> "none"],
      [code |-> 1, effect |-> "png"] }

InitEnv ==
    \/ dirExists = TRUE /\ store \in Stores
    \/ dirExists = FALSE /\ store = {}

InitRest ==
    /\ clock = 0
    /\ listing = None
    /\ pc = [p \in Procs |-> "idle"]
    /\ surface = [p \in Procs |-> "service"]
    /\ template_name = [p \in Procs |-> <<>>]
    /\ request = [p \in Procs |-> EmptyDict]
    /\ data = [p \in Procs |-> EmptyDict]
    /\ current_time = [p \in Procs |-> None]
    /\ current_date = [p \in Procs |-> None]
    /\ day_of_week = [p \in Procs |-> None]
    /\ template_data = [p \in Procs |-> None]
    /\ html_content = [p \in Procs |-> None]
    /\ html_file_path = [p \in Procs |-> None]
    /\ img_file_path = [p \in Procs |-> None]
    /\ image = [p \in Procs |-> None]
    /\ result = [p \in Procs |-> None]
    /\ browser = [p \in Procs |-> NoBrowser]
    /\ disk = {}
    /\ outputs = {}
    /\ nextTmp = 1
    /\ created = [p \in Procs |-> {}]
    /\ removed = [p \in Procs |-> {}]
    /\ browserCalls = [p \in Procs |-> 0]
    /\ trace = [p \in Procs |-> <<>>]

\* One invocation at a time.
Init == InitEnv /\ InitRest /\ active = {1}

\* ------------------------------------------------------------ actions

\* The system clock advances by a minute.
Tick ==
    /\ clock < MaxTicks
    /\ clock' = clock + 1
    /\ UNCHANGED <<store, dirExists, listing, active, pc, surface, template_name, request,
                   data, current_time, current_date, day_of_week, template_data,
                   html_content, html_file_path, img_file_path, image, result, browser,
                   disk, outputs, nextTmp, created, removed, browserCalls, trace>>

\* One entry of list_templates for a file of the directory.
TemplateEntry(files, filename) ==
    LET name == Replace(filename, HTML)
    IN  [name |-> name,
         file |-> filename,
         config |-> load_template_config(files, name),
         has_config |-> JsonFile(name) \in files]

\* The body of GET /templates.
TemplateList(files, exists) ==
    IF ~exists
    THEN [templates |-> {}, error |-> "Templates directory not found"]
    ELSE [templates |-> {TemplateEntry(files, f) : f \in {g \in files : EndsWith(g, HTML)}}]

\* GET /templates
ListTemplates ==
    /\ listing = None
    /\ listing' = TemplateList(store, dirExists)
    /\ UNCHANGED <<store, dirExists, clock, active, pc, surface, template_name, request,
                   data, current_time, current_date, day_of_week, template_data,
                   html_content, html_file_path, img_file_path, image, result, browser,
                   disk, outputs, nextTmp, created, removed, browserCalls, trace>>

\* The names and data the callers draw from: everything when one invocation runs
\* alone; concurrent invocations ask for a template that exists or for none, without
\* data.
NamesFor(act) == IF Cardinality(act) = 1 THEN RequestNames ELSE {<<"weather">>, <<"ghost">>}

DataFor(act) == IF Cardinality(act) = 1 THEN CallerData ELSE {EmptyDict}

\* A caller asks for a template: POST /render/<template_name> with a JSON body, or
\* render_template.py <template_name> <data_file> (output path left to its default).
Request(p) ==
    /\ pc[p] = "idle"
    /\ \E s \in Surfaces, n \in NamesFor(active), d \in DataFor(active) :
        /\ surface' = [surface EXCEPT ![p] = s]
        /\ template_name' = [template_name EXCEPT ![p] = n]
        /\ request' = [request EXCEPT ![p] = d]
        /\ data' = [data EXCEPT ![p] = d]
    /\ pc' = [pc EXCEPT ![p] = "load_config"]
    /\ trace' = [trace EXCEPT ![p] = <<"Start">>]
    /\ UNCHANGED <<envVars, clock, listing, active, clockVars, template_data, html_content,
                   html_file_path, img_file_path, image, result, browser, disk, outputs,
                   nextTmp, created, removed, browserCalls>>

\* A stage of render_html_to_image failed: the function returns no image and its
\* finally block removes the markup file it knows of.  d is the temporary directory
\* as the stage left it, rm the files the stage itself removed.
FailPipeline(p, d, rm) ==
    /\ image' = [image EXCEPT ![p] = None]
    /\ disk' = RemoveIfExists(d, html_file_path[p])
    /\ removed' = [removed EXCEPT ![p] = @ \cup rm \cup {f.path : f \in d \ disk'}]
    /\ trace' = [trace EXCEPT ![p] = Append(@, "Failed")]
    /\ IF surface[p] = "service"
       THEN /\ pc' = [pc EXCEPT ![p] = "respond"]
            /\ UNCHANGED result
       ELSE /\ pc' = [pc EXCEPT ![p] = "returned"]
            /\ result' = [result EXCEPT ![p] = Bool(FALSE)]

\* load_template_config and the defaults block (render_generic; in the script, the
\* head of render_html_to_image, after setup_jinja_env).
LoadConfig(p) ==
    /\ pc[p] = "load_config"
    /\ LET cfg == load_template_config(store, template_name[p])
       IN  IF surface[p] = "cli" /\ ~dirExists
           THEN /\ result' = [result EXCEPT ![p] = SystemExit]
                /\ pc' = [pc EXCEPT ![p] = "returned"]
                /\ trace' = [trace EXCEPT ![p] = Append(@, "Failed")]
                /\ UNCHANGED data
           ELSE IF DefaultsRaise(cfg)
           THEN /\ result' = [result EXCEPT ![p] =
                                IF surface[p] = "service" THEN ExceptionResponse ELSE Bool(FALSE)]
                /\ pc' = [pc EXCEPT ![p] = "returned"]
                /\ trace' = [trace EXCEPT ![p] = Append(@, "Failed")]
                /\ UNCHANGED data
           ELSE /\ data' = [data EXCEPT ![p] = MergedData(cfg, data[p])]
                /\ pc' = [pc EXCEPT ![p] = "render_template"]
                /\ trace' = [trace EXCEPT ![p] = Append(@, "ConfigLoaded")]
                /\ UNCHANGED result
    /\ UNCHANGED <<envVars, clock, listing, active, reqVars, clockVars, template_data,
                   html_content, html_file_path, img_file_path, image, browser, disk,
                   outputs, nextTmp, created, removed, browserCalls>>

\* render_template: get_template, then the first datetime.now().
RenderTemplateBegin(p) ==
    /\ pc[p] = "render_template"
    /\ IF TemplateMissing(store, template_name[p])
       THEN /\ FailPipeline(p, disk, {})
            /\ UNCHANGED current_time
       ELSE /\ current_time' = [current_time EXCEPT ![p] = FormatTime(Now(clock))]
            /\ pc' = [pc EXCEPT ![p] = "render_date"]
            /\ UNCHANGED <<image, disk, removed, trace, result>>
    /\ UNCHANGED <<envVars, clock, listing, active, reqVars, data, current_date, day_of_week,
                   template_data, html_content, html_file_path, img_file_path, browser,
                   outputs, nextTmp, created, browserCalls>>

\* render_template: the second datetime.now().
RenderTemplateDate(p) ==
    /\ pc[p] = "render_date"
    /\ current_date' = [current_date EXCEPT ![p] = FormatDate(Now(clock))]
    /\ pc' = [pc EXCEPT ![p] = "render_day"]
    /\ UNCHANGED <<envVars, clock, listing, active, reqVars, data, current_time, day_of_week,
                   template_data, html_content, html_file_path, img_file_path, image, result,
                   browser, disk, outputs, nextTmp, created, removed, browserCalls, trace>>

\* render_template: the third datetime.now() and template.render; then
\* render_html_to_image's `if not html_content`.
RenderTemplateFinish(p) ==
    /\ pc[p] = "render_day"
    /\ LET w == FormatWeekday(Now(clock))
           td == TemplateData(data[p], current_time[p], current_date[p], w)
           html == Expand(template_name[p], td)
       IN  /\ day_of_week' = [day_of_week EXCEPT ![p] = w]
           /\ template_data' = [template_data EXCEPT ![p] = td]
           /\ html_content' = [html_content EXCEPT ![p] = html]
           /\ IF Not(html)
              THEN FailPipeline(p, disk, {})
              ELSE /\ pc' = [pc EXCEPT ![p] = "create_html"]
                   /\ trace' = [trace EXCEPT ![p] = Append(@, "MarkupRendered")]
                   /\ UNCHANGED <<image, disk, removed, result>>
    /\ UNCHANGED <<envVars, clock, listing, active, reqVars, data, current_time, current_date,
                   html_file_path, img_file_path, browser, outputs, nextTmp, created,
                   browserCalls>>

\* create_html_file: NamedTemporaryFile(delete=False) may fail to create the file,
\* and html_file.write may fail after it was created; both return None.
CreateHtmlFile(p) ==
    /\ pc[p] = "create_html"
    /\ LET path == TmpPath(nextTmp, HTML)
       IN  \E outcome \in {"ok", "create_fails", "write_fails"} :
             CASE outcome = "ok" ->
                    /\ disk' = WriteFile(disk, path, html_content[p])
                    /\ html_file_path' = [html_file_path EXCEPT ![p] = path]
                    /\ created' = [created EXCEPT ![p] = @ \cup {path}]
                    /\ nextTmp' = nextTmp + 1
                    /\ pc' = [pc EXCEPT ![p] = "take_screenshot"]
                    /\ trace' = [trace EXCEPT ![p] = Append(@, "TempFileWritten")]
                    /\ UNCHANGED <<image, removed, result>>
               [] outcome = "create_fails" ->
                    /\ FailPipeline(p, disk, {})
                    /\ UNCHANGED <<html_file_path, created, nextTmp>>
               [] outcome = "write_fails" ->
                    /\ FailPipeline(p, WriteFile(disk, path, EmptyFile), {})
                    /\ created' = [created EXCEPT ![p] = @ \cup {path}]
                    /\ nextTmp' = nextTmp + 1
                    /\ UNCHANGED html_file_path
    /\ UNCHANGED <<envVars, clock, listing, active, reqVars, data, clockVars, template_data,
                   html_content, img_file_path, browser, outputs, browserCalls>>

\* take_screenshot up to subprocess.run: the temporary output file is created and
\* the browser is launched on the markup file's URL.  Creating the file may raise, and
\* so may the launch (the binary is absent); both return None through the except and
\* finally blocks.
TakeScreenshotStart(p) ==
    /\ pc[p] = "take_screenshot"
    /\ LET path == TmpPath(nextTmp, ".png")
           proc == [target |-> html_file_path[p], screenshot |-> path, window |-> Dimensions]
       IN  \E outcome \in {"tmp_fails", "launch_raises", "launched"} :
             CASE outcome = "tmp_fails" ->
                    /\ FailPipeline(p, disk, {})
                    /\ UNCHANGED <<img_file_path, browser, nextTmp, created, browserCalls>>
               [] outcome = "launch_raises" ->
                    /\ img_file_path' = [img_file_path EXCEPT ![p] = path]
                    /\ created' = [created EXCEPT ![p] = @ \cup {path}]
                    /\ nextTmp' = nextTmp + 1
                    /\ browserCalls' = [browserCalls EXCEPT ![p] = @ + 1]
                    /\ browser' = [browser EXCEPT ![p] = [state |-> "absent"] @@ proc]
                    /\ FailPipeline(p,
                                    RemoveIfExists(WriteFile(disk, path, EmptyFile), path),
                                    {path})
               [] outcome = "launched" ->
                    /\ img_file_path' = [img_file_path EXCEPT ![p] = path]
                    /\ created' = [created EXCEPT ![p] = @ \cup {path}]
                    /\ nextTmp' = nextTmp + 1
                    /\ browserCalls' = [browserCalls EXCEPT ![p] = @ + 1]
                    /\ browser' = [browser EXCEPT ![p] = [state |-> "running"] @@ proc]
                    /\ disk' = WriteFile(disk, path, EmptyFile)
                    /\ pc' = [pc EXCEPT ![p] = "browser_running"]
                    /\ UNCHANGED <<image, removed, trace, result>>
    /\ UNCHANGED <<envVars, clock, listing, active, reqVars, data, clockVars, template_data,
                   html_content, html_file_path, outputs>>

\* The temporary directory after the browser process ran.
AfterBrowser(d, b, o) ==
    CASE o.effect = "png" -> WriteFile(d, b.screenshot, Png(b.window[1], b.window[2]))
      [] o.effect = "delete" -> Remove(d, b.screenshot)
      [] OTHER -> d

\* A take_screenshot that does not look at the return code.
ScreenshotResult_IgnoreCode(d, path, code) ==
    IF ~Exists(d, path)
    THEN None
    ELSE IF DecodeRaises(Content(d, path)) THEN None ELSE Decode(Content(d, path))

\* What take_screenshot returns once subprocess.run returned with exit code `code`
\* and the temporary directory is d.
ScreenshotResult(d, path, code) ==
    IF code # 0 \/ ~Exists(d, path)
    THEN None
    ELSE IF DecodeRaises(Content(d, path)) THEN None ELSE Decode(Content(d, path))

\* The browser process exits: subprocess.run returns and take_screenshot runs to its
\* end (return code and file check, Image.open, the finally block).
BrowserExit(p) ==
    /\ pc[p] = "browser_running"
    /\ browser[p].state = "running"
    /\ \E o \in BrowserOutcomes :
         LET d1 == AfterBrowser(disk, browser[p], o)
             img == ScreenshotResult(d1, img_file_path[p], o.code)
             d2 == RemoveIfExists(d1, img_file_path[p])
             rm == {f.path : f \in d1 \ d2}
         IN  /\ browser' = [browser EXCEPT ![p] = [state |-> "exited", code |-> o.code, effect |-> o.effect] @@ @]
             /\ IF Not(img)
                THEN FailPipeline(p, d2, rm)
                ELSE /\ image' = [image EXCEPT ![p] = img]
                     /\ disk' = d2
                     /\ removed' = [removed EXCEPT ![p] = @ \cup rm]
                     /\ trace' = [trace EXCEPT ![p] = Append(@, "Rasterized")]
                     /\ pc' = [pc EXCEPT ![p] = "pipeline_return"]
                     /\ UNCHANGED result
    /\ UNCHANGED <<envVars, clock, listing, active, reqVars, data, clockVars, template_data,
                   html_content, html_file_path, img_file_path, outputs, nextTmp, created,
                   browserCalls>>

\* The browser process never exits.  subprocess.run is called without a timeout, so
\* take_screenshot stays blocked in it.
BrowserHangs(p) ==
    /\ pc[p] = "browser_running"
    /\ browser[p].state = "running"
    /\ browser' = [browser EXCEPT ![p] = [@ EXCEPT !.state = "hung"]]
    /\ UNCHANGED <<envVars, clock, listing, active, pc, reqVars, data, clockVars,
                   template_data, html_content, html_file_path, img_file_path, image, result,
                   disk, outputs, nextTmp, created, removed, browserCalls, trace>>

\* f"{template_name}_output.png"
OutputPath(name) == name \o <<"_output.png">>

\* render_html_to_image after take_screenshot returned an image: the service returns
\* it; the script saves it to the output path (image.save may raise) and returns True.
\* The finally block removes the markup file.
PipelineReturn(p) ==
    /\ pc[p] = "pipeline_return"
    /\ disk' = RemoveIfExists(disk, html_file_path[p])
    /\ removed' = [removed EXCEPT ![p] = @ \cup {f.path : f \in disk \ disk'}]
    /\ IF surface[p] = "service"
       THEN /\ pc' = [pc EXCEPT ![p] = "respond"]
            /\ trace' = [trace EXCEPT ![p] = Append(@, "Done")]
            /\ UNCHANGED <<result, outputs, image>>
       ELSE \E saved \in BOOLEAN :
              /\ pc' = [pc EXCEPT ![p] = "returned"]
              /\ IF saved
                 THEN /\ outputs' = outputs \cup
                                      {[path |-> OutputPath(template_name[p]), image |-> image[p], by |-> p]}
                      /\ result' = [result EXCEPT ![p] = Bool(TRUE)]
                      /\ trace' = [trace EXCEPT ![p] = Append(@, "Done")]
                 ELSE /\ result' = [result EXCEPT ![p] = Bool(FALSE)]
                      /\ trace' = [trace EXCEPT ![p] = Append(@, "Failed")]
                      /\ UNCHANGED outputs
              /\ UNCHANGED image
    /\ UNCHANGED <<envVars, clock, listing, active, reqVars, data, clockVars, template_data,
                   html_content, html_file_path, img_file_path, browser, nextTmp, created,
                   browserCalls>>

\* image_to_response (service only): no image gives the 500 answer; otherwise the
\* image is saved to a new temporary file (delete=False) that send_file streams.
\* Creating the file or saving may raise, which render_generic answers with a 500.
ImageToResponse(p) ==
    /\ pc[p] = "respond"
    /\ pc' = [pc EXCEPT ![p] = "returned"]
    /\ LET path == TmpPath(nextTmp, ".png")
       IN  IF Not(image[p])
           THEN /\ result' = [result EXCEPT ![p] = NoImageResponse]
                /\ UNCHANGED <<disk, nextTmp, created>>
           ELSE \E outcome \in {"ok", "tmp_fails", "save_fails"} :
                  CASE outcome = "ok" ->
                         /\ disk' = WriteFile(disk, path, Png(image[p].width, image[p].height))
                         /\ created' = [created EXCEPT ![p] = @ \cup {path}]
                         /\ nextTmp' = nextTmp + 1
                         /\ result' = [result EXCEPT ![p] = ImageResponse(path)]
                    [] outcome = "tmp_fails" ->
                         /\ result' = [result EXCEPT ![p] = ExceptionResponse]
                         /\ UNCHANGED <<disk, nextTmp, created>>
                    [] outcome = "save_fails" ->
                         /\ disk' = WriteFile(disk, path, EmptyFile)
                         /\ created' = [created EXCEPT ![p] = @ \cup {path}]
                         /\ nextTmp' = nextTmp + 1
                         /\ result' = [result EXCEPT ![p] = ExceptionResponse]
    /\ UNCHANGED <<envVars, clock, listing, active, reqVars, data, clockVars, template_data,
                   html_content, html_file_path, img_file_path, image, browser, outputs,
                   removed, browserCalls, trace>>

\* ------------------------------------------------------------ specification

Next ==
    \/ Tick
    \/ ListTemplates
    \/ \E p \in active : Request(p)
    \/ \E p \in active : LoadConfig(p)
    \/ \E p \in active : RenderTemplateBegin(p)
    \/ \E p \in active : RenderTemplateDate(p)
    \/ \E p \in active : RenderTemplateFinish(p)
    \/ \E p \in active : CreateHtmlFile(p)
    \/ \E p \in active : TakeScreenshotStart(p)
    \/ \E p \in active : BrowserExit(p)
    \/ \E p \in active : BrowserHangs(p)
    \/ \E p \in active : PipelineReturn(p)
    \/ \E p \in active : ImageToResponse(p)

Spec == Init /\ [][Next]_vars

\* The interpreter keeps running the code of an invocation, and the clock and the
\* listing are not held back; nothing is assumed of the browser process.
FairSpec == Spec /\ WF_vars(Next)

\* Two invocations run concurrently on the documentation's example store.
InitConc == dirExists = TRUE /\ store = SmallStore /\ InitRest /\ active = Procs

ConcSpec == InitConc /\ [][Next]_vars

\* ------------------------------------------------------------ properties

Returned(p) == pc[p] = "returned"

Started(p) == pc[p] # "idle"

\* The paths of the files of a directory.
Paths(d) == {f.path : f \in d}

\* The temporary files an invocation created that are still on disk.
LeftBehind(p) == created[p] \cap Paths(disk)

\* The output PNGs an invocation of the script wrote.
OutputsOf(p) == {o \in outputs : o.by = p}

\* The sidecar value the invocation's template has.
ConfigOf(p) == load_template_config(store, template_name[p])

\* The browser could not be launched, or exited with a non-zero code.
BrowserFailed(p) ==
    \/ browser[p].state = "absent"
    \/ browser[p].state = "exited" /\ browser[p].code # 0

\* The results that tell the caller that no image was produced.
FailureResults == {NoImageResponse, ExceptionResponse, Bool(FALSE), SystemExit}

\* C1: once an invocation has returned, none of the temporary markup or image
\* files it created is left on disk, whether it succeeded or failed.
C1_NoTempFileRemains == \A p \in Procs : Returned(p) => LeftBehind(p) = {}

\* C2: when the browser cannot be launched or exits non-zero, take_screenshot and
\* the pipeline return no image (None / the 500 answer in the service, False and
\* no output PNG in the script), the browser is invoked exactly once, and neither
\* the temporary image file nor the temporary markup file is left behind.
C2_BrowserFailure ==
    \A p \in Procs :
        BrowserFailed(p) =>
            /\ image[p] = None
            /\ pc[p] \in {"respond", "returned"}
            /\ browserCalls[p] = 1
            /\ img_file_path[p] \notin Paths(disk)
            /\ html_file_path[p] \notin Paths(disk)
            /\ LeftBehind(p) = {}
            /\ OutputsOf(p) = {}
            /\ Returned(p) =>
                 result[p] = IF surface[p] = "service" THEN NoImageResponse ELSE Bool(FALSE)

\* C2 witness: a script invocation returned after its browser exited non-zero
\* although it had written a screenshot.
C2_Witness ==
    \E p \in Procs :
        /\ Returned(p)
        /\ surface[p] = "cli"
        /\ browser[p].state = "exited"
        /\ browser[p].code # 0
        /\ result[p] = Bool(FALSE)

HasDefaultsMapping(p) ==
    /\ ConfigOf(p).type = "object"
    /\ "defaults" \in DOMAIN ConfigOf(p).members
    /\ ConfigOf(p).members["defaults"].type = "object"

DefaultsOf(p) == ConfigOf(p).members["defaults"].members

\* What the claim expects for key k: the caller's value, else the default's.
Expected(p, k) == IF k \in DOMAIN request[p] THEN request[p][k] ELSE DefaultsOf(p)[k]

\* C4 as stated: with a 'defaults' mapping, for every key the template is given the
\* caller's value if the caller sent the key, otherwise the default's value.
C4_Original ==
    \A p \in Procs :
        template_data[p] # None /\ HasDefaultsMapping(p) =>
            \A k \in DOMAIN request[p] \cup DOMAIN DefaultsOf(p) :
                /\ k \in DOMAIN template_data[p]
                /\ template_data[p][k] = Expected(p, k)

\* C4 amended: with a 'defaults' mapping, for every key other than the four
\* built-in names the template is given the caller's value if the caller sent the
\* key, otherwise the default's value; no caller or default key is dropped.
C4_Amended ==
    \A p \in Procs :
        template_data[p] # None /\ HasDefaultsMapping(p) =>
            /\ DOMAIN request[p] \cup DOMAIN DefaultsOf(p) \subseteq DOMAIN template_data[p]
            /\ \A k \in (DOMAIN request[p] \cup DOMAIN DefaultsOf(p)) \ BuiltinKeys :
                   template_data[p][k] = Expected(p, k)

\* C4 witness: defaults {a:1, b:2, ...} and caller data {b:3} gave a = 1 and b = 3.
C4_Witness ==
    \E p \in Procs :
        /\ template_data[p] # None
        /\ HasDefaultsMapping(p)
        /\ request[p] = [b |-> JNum(3)]
        /\ template_data[p]["a"] = JNum(1)
        /\ template_data[p]["b"] = JNum(3)

\* C5 as stated: for every built-in key that the caller data (defaults applied)
\* also has, the template is given the caller's value.
C5_Original ==
    \A p \in Procs :
        template_data[p] # None =>
            \A k \in BuiltinKeys \cap DOMAIN data[p] : template_data[p][k] = data[p][k]

\* C5 amended: the built-in variables are merged on top of the caller data: for each
\* of display, current_time, current_date and day_of_week the template is given the
\* built-in value, also when the caller data (defaults applied) has that key.
C5_Amended ==
    \A p \in Procs :
        template_data[p] # None =>
            /\ template_data[p]["display"] = DISPLAY_CONFIG
            /\ template_data[p]["current_time"] = current_time[p]
            /\ template_data[p]["current_date"] = current_date[p]
            /\ template_data[p]["day_of_week"] = day_of_week[p]
            /\ current_time[p] \in {FormatTime(Now(c)) : c \in 0..clock}
            /\ current_date[p] \in {FormatDate(Now(c)) : c \in 0..clock}
            /\ day_of_week[p] \in {FormatWeekday(Now(c)) : c \in 0..clock}
            /\ \A k \in DOMAIN data[p] \ BuiltinKeys : template_data[p][k] = data[p][k]

\* C5 witness: the caller sent all four built-in keys and the template was rendered.
C5_Witness ==
    \E p \in Procs :
        /\ template_data[p] # None
        /\ BuiltinKeys \subseteq DOMAIN request[p]
        /\ template_data[p]["display"] # request[p]["display"]

\* C6: the browser invocation is bounded by a timeout, so an invocation that
\* waits for its browser always gets to return, also when the browser never exits.
C6_Terminates == \A p \in Procs : (pc[p] = "browser_running") ~> Returned(p)

\* The template has a markup file that renders without raising.
ValidTemplate(p) ==
    /\ ~TemplateMissing(store, template_name[p])
    /\ TemplateBehaviour(HtmlFile(template_name[p])) # "error"

\* The browser exited with code 0 and wrote its screenshot.
BrowserSucceeded(p) ==
    /\ browser[p].state = "exited"
    /\ browser[p].code = 0
    /\ browser[p].effect = "png"

\* The elements of a sequence.
Range(seq) == {seq[i] : i \in 1..Len(seq)}

\* C7: for a template that exists and renders without error on no caller data (an
\* empty rendering included), the render stage does not fail, the rasterizer is
\* invoked with 800 x 480, and when the browser succeeds the pipeline has an image
\* of exactly 800 x 480.
C7_ValidTemplateRenders ==
    \A p \in Procs :
        /\ Returned(p)
        /\ ValidTemplate(p)
        /\ request[p] = EmptyDict
        /\ ~DefaultsRaise(ConfigOf(p))
        => /\ "MarkupRendered" \in Range(trace[p])
           /\ browser[p].state # "none" => browser[p].window = <<800, 480>>
           /\ BrowserSucceeded(p) => image[p] = [type |-> "image", width |-> 800, height |-> 480]

\* C8: a sidecar that is absent or not a well-formed configuration never makes a
\* render or a listing fail: load_template_config gives {} for a missing or
\* unparsable file, and without a 'defaults' mapping the render goes on with the
\* caller's data as it was sent.
C8_SidecarNeverFails ==
    /\ \A n \in RequestNames :
          JsonFile(n) \notin store \/ JsonLoadRaises(SidecarText(JsonFile(n)))
             => load_template_config(store, n) = JObj(EmptyDict)
    /\ listing # None /\ dirExists => "error" \notin DOMAIN listing
    /\ \A p \in Procs :
          /\ pc[p] \notin {"idle", "load_config"}
          /\ surface[p] = "service" \/ dirExists
          /\ ~HasDefaultsMapping(p)
          => /\ Len(trace[p]) >= 2
             /\ trace[p][2] = "ConfigLoaded"
             /\ data[p] = request[p]

\* The file name without its last token (the extension).
BaseName(file) == SubSeq(file, 1, Len(file) - 1)

\* C9: list_templates has exactly one entry per .html file of the directory, named
\* by the file's base name; has_config holds exactly when <name>.json exists; an
\* unparsable sidecar leaves has_config true and the config empty.
C9_Listing ==
    listing # None /\ dirExists =>
        LET html == {f \in store : EndsWith(f, HTML)}
        IN  /\ {e.file : e \in listing.templates} = html
            /\ Cardinality(listing.templates) = Cardinality(html)
            /\ \A e \in listing.templates :
                 /\ e.name = BaseName(e.file)
                 /\ e.has_config = (JsonFile(BaseName(e.file)) \in store)
                 /\ JsonFile(BaseName(e.file)) \in store
                      /\ JsonLoadRaises(SidecarText(JsonFile(BaseName(e.file))))
                      => e.has_config /\ e.config = JObj(EmptyDict)

\* s is a prefix of t.
IsPrefix(s, t) == Len(s) <= Len(t) /\ SubSeq(t, 1, Len(s)) = s

\* The trace ended in Failed.
HasFailed(p) == Len(trace[p]) > 0 /\ trace[p][Len(trace[p])] = "Failed"

\* The stages were passed in order, a failure being the last of them.
OrderedTrace(tr) ==
    \/ IsPrefix(tr, StageOrder)
    \/ /\ Len(tr) > 1
       /\ tr[Len(tr)] = "Failed"
       /\ Len(tr) - 1 < Len(StageOrder)
       /\ IsPrefix(SubSeq(tr, 1, Len(tr) - 1), StageOrder)

\* The caller got an image.
GotImage(p) ==
    \/ result[p] = Bool(TRUE)
    \/ result[p] # None /\ result[p].kind = "response" /\ result[p].status = 200

\* The temporary files of the pipeline (not the response file) that are left.
PipelineFilesLeft(p) ==
    {x \in LeftBehind(p) : ~(GotImage(p) /\ surface[p] = "service" /\ result[p].file = x)}

\* The order, short-circuit and all-or-nothing part of C10.
StagesInOrder(p) ==
    /\ OrderedTrace(trace[p])
    /\ browserCalls[p] <= 1
    /\ Cardinality({x \in created[p] : x.suffix = HTML}) <= 1
    /\ "MarkupRendered" \notin Range(trace[p]) => created[p] = {}
    /\ "TempFileWritten" \notin Range(trace[p]) => browserCalls[p] = 0 /\ html_file_path[p] = None
    /\ HasFailed(p) =>
         /\ pc[p] \in {"respond", "returned"}
         /\ ~GotImage(p)
         /\ OutputsOf(p) = {}
         /\ Returned(p) => result[p] \in FailureResults
    /\ GotImage(p) => trace[p] = StageOrder
    /\ OutputsOf(p) # {} => trace[p] = StageOrder

\* C10: an invocation passes its stages in order; a failure goes straight to
\* Failed, no later stage runs, nothing is retried and the result is no image; an
\* image is returned only if every stage succeeded; and the pending cleanup has
\* run when the invocation returns: no temporary file of the pipeline is left.
C10_StateMachine ==
    \A p \in Procs :
        Started(p) =>
            /\ StagesInOrder(p)
            /\ Returned(p) => PipelineFilesLeft(p) = {}

\* C12: the current_time, current_date and day_of_week a template is given all
\* describe one and the same clock instant, also when the clock advances while
\* render_template runs.
C12_OneInstant ==
    \A p \in Procs :
        template_data[p] # None =>
            \E c \in 0..MaxTicks :
                /\ template_data[p]["current_time"] = FormatTime(Now(c))
                /\ template_data[p]["current_date"] = FormatDate(Now(c))
                /\ template_data[p]["day_of_week"] = FormatWeekday(Now(c))

\* The temporary files of a kind an invocation created.
CreatedOf(p, suffix) == {x \in created[p] : x.suffix = suffix}

\* subprocess.run was called for the invocation.
BrowserInvoked(p) == browser[p].state # "none"

\* The browser of the invocation is given the invocation's own markup file to read
\* and its own output file to write, and the files are there while it runs.
OwnBrowserFiles(p) ==
    BrowserInvoked(p) =>
        /\ browser[p].target = html_file_path[p]
        /\ browser[p].screenshot = img_file_path[p]
        /\ browser[p].target \in created[p]
        /\ browser[p].screenshot \in created[p]
        /\ browser[p].state \in {"running", "hung"} =>
             /\ Exists(disk, browser[p].target)
             /\ Content(disk, browser[p].target) = html_content[p]
             /\ Exists(disk, browser[p].screenshot)

\* No invocation has created or removed a temporary file of another one, and a
\* markup file stays on disk as long as its invocation still needs it.
Isolated(p) ==
    /\ removed[p] \subseteq created[p]
    /\ \A q \in Procs \ {p} : created[p] \cap created[q] = {}
    /\ pc[p] \in {"take_screenshot", "browser_running", "pipeline_return"} =>
         Exists(disk, html_file_path[p])

====
